---- MODULE Spec2Model ----
(***************************************************************************)
(* Auto Maze Solver (src/MAZEEE.py): the Maze grid and its recursive       *)
(* backtracker, the four search generators (DFS, BFS, Dijkstra, A-star),   *)
(* and the Visualizer handlers that start, step and reset a search run.    *)
(*                                                                         *)
(* A cell is its index r * cols + c in Maze.grid; Cell.c and Cell.r are    *)
(* recovered from the index.  Cell.walls is a sequence of four booleans;   *)
(* Python's walls[i] is walls[idx][i + 1] here.  Python's None is -1.      *)
(***************************************************************************)
EXTENDS Integers, Sequences, FiniteSets, TLC

VARIABLES
    cols, rows,         \* Maze.cols, Maze.rows
    walls,              \* Cell.walls of every cell of Maze.grid
    cell_visited,       \* the cells whose Cell.visited flag is True
    stack,              \* Maze.stack
    gen_pc,             \* position in generate_recursive_backtracker: "idle" | "loop"
    callback,           \* an animate_callback was supplied to the running generation
    cb_calls,           \* invocations of animate_callback in the running generation
    iterations,         \* iterations of the carving loop in the running generation
    draws,              \* per iteration of that loop, the index random.choice drew
                        \* in its list, or 0 for an iteration that drew nothing
    diff_name,          \* Visualizer.diff_name
    algorithm_name,     \* Visualizer.algorithm_name
    generating,         \* Visualizer.generating
    running_search,     \* Visualizer.running_search
    search_generator,   \* Visualizer.search_generator (a suspended generator, or NoGenerator)
    search_visited,     \* Visualizer.search_visited
    search_came_from,   \* Visualizer.search_came_from
    search_path,        \* Visualizer.search_path
    search_complete,    \* Visualizer.search_complete
    start_idx, end_idx, \* Visualizer.start_idx, Visualizer.end_idx
    last_code,          \* outcome of the latest step_search call of this run, "none" after
                        \* run_search and "reset" after reset_search_state
    visit_log           \* the nodes of the "visit" messages of this run, in order

mazeVars == <<cols, rows, walls, cell_visited, stack, gen_pc, callback, cb_calls, iterations,
              draws>>
searchVars == <<running_search, search_generator, search_visited, search_came_from,
                search_path, search_complete>>
logVars == <<last_code, visit_log>>
vars == <<mazeVars, diff_name, algorithm_name, generating, searchVars,
          start_idx, end_idx, logVars>>

\* ---------------------------------------------------------------- bounds
\* Largest grid of the search specification.
MaxCols == 4
MaxRows == 2

\* Largest grid of the generator specification.
GenMaxCols == 3
GenMaxRows == 3

\* Largest grid of the generator specification that starts from any grid.
AnyMaxCols == 3
AnyMaxRows == 2

None == -1

\* search_generator = None: no generator object.
NoGenerator ==
    [alg |-> "none", pc |-> "none", start |-> None, goal |-> None, node |-> None,
     d |-> 0, visited |-> {}, stack |-> <<>>, heap |-> {}, came_from |-> <<>>,
     dist |-> <<>>]

Range(s) == {s[i] : i \in 1..Len(s)}

Last(s) == s[Len(s)]

Front(s) == SubSeq(s, 1, Len(s) - 1)

Abs(x) == IF x < 0 THEN -x ELSE x

\* ---------------------------------------------------------------- Maze
\* The table of presets, scaled down to grids a model can enumerate
\* (the step delay of each preset only paces the animation).
DIFFICULTIES ==
    [Easy |-> <<2, 2>>, Medium |-> <<3, 2>>, Hard |-> <<2, 3>>]

DEFAULT_DIFFICULTY == "Medium"

Cells == 0..(cols * rows - 1)

CellC(idx) == idx % cols

CellR(idx) == idx \div cols

AllWalls == <<TRUE, TRUE, TRUE, TRUE>>

dirs == << <<0, -1>>, <<1, 0>>, <<0, 1>>, <<-1, 0>> >>

index(c, r) ==
    IF c < 0 \/ r < 0 \/ c >= cols \/ r >= rows THEN None ELSE r * cols + c

\* Maze.get returns the cell itself; a cell is its index.
get(c, r) == index(c, r)

\* The (neighbour, direction) pairs of the unvisited grid neighbours, in
\* the order up, right, down, left.
neighbors_with_walls(cell) ==
    LET n(i) == get(CellC(cell) + dirs[i + 1][1], CellR(cell) + dirs[i + 1][2])
        hit(i) == n(i) # None /\ n(i) \notin cell_visited
        F[i \in 0..4] ==
            IF i = 4 THEN <<>>
            ELSE IF hit(i) THEN <<<<n(i), i>>>> \o F[i + 1] ELSE F[i + 1]
    IN  F[0]

\* remove_walls clearing the wall of a alone.
remove_walls_one_side(w, a, b) ==
    LET dx == CellC(b) - CellC(a)
        dy == CellR(b) - CellR(a)
        clear(v, x, i) == [v EXCEPT ![x] = [@ EXCEPT ![i + 1] = FALSE]]
    IN  IF dx = 1 THEN clear(w, a, 1)
        ELSE IF dx = -1 THEN clear(w, a, 3)
        ELSE IF dy = 1 THEN clear(w, a, 2)
        ELSE IF dy = -1 THEN clear(w, a, 0)
        ELSE w

\* remove_walls with the wall indices of the two cells exchanged.
remove_walls_swapped(w, a, b) ==
    LET dx == CellC(b) - CellC(a)
        dy == CellR(b) - CellR(a)
        clear(v, x, i) == [v EXCEPT ![x] = [@ EXCEPT ![i + 1] = FALSE]]
    IN  IF dx = 1 THEN clear(clear(w, a, 3), b, 1)
        ELSE IF dx = -1 THEN clear(clear(w, a, 1), b, 3)
        ELSE IF dy = 1 THEN clear(clear(w, a, 0), b, 2)
        ELSE IF dy = -1 THEN clear(clear(w, a, 2), b, 0)
        ELSE w

\* The walls after remove_walls(a, b) on walls w.
remove_walls(w, a, b) ==
    LET dx == CellC(b) - CellC(a)
        dy == CellR(b) - CellR(a)
        clear(v, x, i) == [v EXCEPT ![x] = [@ EXCEPT ![i + 1] = FALSE]]
    IN  IF dx = 1 THEN clear(clear(w, a, 1), b, 3)
        ELSE IF dx = -1 THEN clear(clear(w, a, 3), b, 1)
        ELSE IF dy = 1 THEN clear(clear(w, a, 2), b, 0)
        ELSE IF dy = -1 THEN clear(clear(w, a, 0), b, 2)
        ELSE w

\* GenerateBegin without the reset of the walls.
GenerateBegin_keep_walls(cb) ==
    /\ walls' = walls
    /\ cell_visited' = {0}
    /\ stack' = <<0>>
    /\ gen_pc' = "loop"
    /\ callback' = cb
    /\ cb_calls' = 0
    /\ iterations' = 0
    /\ draws' = <<>>

\* generate_recursive_backtracker up to its loop: every cell reset, (0,0)
\* visited and alone on the stack.
GenerateBegin(cb) ==
    /\ walls' = [i \in Cells' |-> AllWalls]
    /\ cell_visited' = {0}
    /\ stack' = <<0>>
    /\ gen_pc' = "loop"
    /\ callback' = cb
    /\ cb_calls' = 0
    /\ iterations' = 0
    /\ draws' = <<>>

\* reset_search_state forgetting to clear the path and the complete flag.
reset_search_state_keep_path ==
    /\ running_search' = FALSE
    /\ search_generator' = NoGenerator
    /\ search_visited' = {}
    /\ search_came_from' = <<>>
    /\ UNCHANGED <<search_path, search_complete>>
    /\ last_code' = "reset"
    /\ visit_log' = <<>>

\* reset_search_state.
reset_search_state ==
    /\ running_search' = FALSE
    /\ search_generator' = NoGenerator
    /\ search_visited' = {}
    /\ search_came_from' = <<>>
    /\ search_path' = <<>>
    /\ search_complete' = FALSE
    /\ last_code' = "reset"
    /\ visit_log' = <<>>

\* CarveStep advancing without setting the visited flag of the chosen cell.
CarveStep_no_mark ==
    /\ gen_pc = "loop"
    /\ stack # <<>>
    /\ LET current == Last(stack)
           neighbors == neighbors_with_walls(current)
       IN  IF neighbors # <<>>
           THEN \E k \in 1..Len(neighbors) :
                    LET nxt == neighbors[k][1]
                    IN  /\ cell_visited' = cell_visited
                        /\ walls' = remove_walls(walls, current, nxt)
                        /\ stack' = Append(stack, nxt)
                        /\ draws' = Append(draws, k)
           ELSE /\ stack' = Front(stack)
                /\ draws' = Append(draws, 0)
                /\ UNCHANGED <<cell_visited, walls>>
    /\ iterations' = iterations + 1
    /\ cb_calls' = IF callback THEN cb_calls + 1 ELSE cb_calls
    /\ UNCHANGED <<cols, rows, gen_pc, callback, diff_name, algorithm_name, generating,
                   searchVars, start_idx, end_idx, logVars>>

\* CarveStep calling the callback in the advance branch only.
CarveStep_callback_on_advance ==
    /\ gen_pc = "loop"
    /\ stack # <<>>
    /\ LET current == Last(stack)
           neighbors == neighbors_with_walls(current)
       IN  IF neighbors # <<>>
           THEN \E k \in 1..Len(neighbors) :
                    LET nxt == neighbors[k][1]
                    IN  /\ cell_visited' = cell_visited \cup {nxt}
                        /\ walls' = remove_walls(walls, current, nxt)
                        /\ stack' = Append(stack, nxt)
                        /\ draws' = Append(draws, k)
                        /\ cb_calls' = IF callback THEN cb_calls + 1 ELSE cb_calls
           ELSE /\ stack' = Front(stack)
                /\ draws' = Append(draws, 0)
                /\ UNCHANGED <<cell_visited, walls, cb_calls>>
    /\ iterations' = iterations + 1
    /\ UNCHANGED <<cols, rows, gen_pc, callback, diff_name, algorithm_name, generating,
                   searchVars, start_idx, end_idx, logVars>>

\* One iteration of the carving loop: advance to a randomly chosen unvisited
\* neighbour of the top of the stack, or pop; then the callback, if any.
CarveStep ==
    /\ gen_pc = "loop"
    /\ stack # <<>>
    /\ LET current == Last(stack)
           neighbors == neighbors_with_walls(current)
       IN  IF neighbors # <<>>
           THEN \E k \in 1..Len(neighbors) :
                    LET nxt == neighbors[k][1]
                    IN  /\ cell_visited' = cell_visited \cup {nxt}
                        /\ walls' = remove_walls(walls, current, nxt)
                        /\ stack' = Append(stack, nxt)
                        /\ draws' = Append(draws, k)
           ELSE /\ stack' = Front(stack)
                /\ draws' = Append(draws, 0)
                /\ UNCHANGED <<cell_visited, walls>>
    /\ iterations' = iterations + 1
    /\ cb_calls' = IF callback THEN cb_calls + 1 ELSE cb_calls
    /\ UNCHANGED <<cols, rows, gen_pc, callback, diff_name, algorithm_name, generating,
                   searchVars, start_idx, end_idx, logVars>>

\* GenerateFinish without the final reset of the visited flags.
GenerateFinish_keep_flags ==
    /\ gen_pc = "loop"
    /\ stack = <<>>
    /\ gen_pc' = "idle"
    /\ generating' = FALSE
    /\ start_idx' = index(0, 0)
    /\ end_idx' = index(cols - 1, rows - 1)
    /\ reset_search_state
    /\ UNCHANGED <<cols, rows, walls, cell_visited, stack, callback, cb_calls, iterations,
                   draws, diff_name, algorithm_name>>

\* The loop has ended: generate_recursive_backtracker clears the visited
\* flags and returns to generate_maze, which clears generating, sets the
\* start and end cells and resets the search state.  (set_difficulty, when
\* it is the caller, then resets the search state and sets the same start
\* and end cells once more.)
GenerateFinish ==
    /\ gen_pc = "loop"
    /\ stack = <<>>
    /\ cell_visited' = {}
    /\ gen_pc' = "idle"
    /\ generating' = FALSE
    /\ start_idx' = index(0, 0)
    /\ end_idx' = index(cols - 1, rows - 1)
    /\ reset_search_state
    /\ UNCHANGED <<cols, rows, walls, stack, callback, cb_calls, iterations, draws,
                   diff_name, algorithm_name>>

\* ---------------------------------------------------------------- Pathfinding
Reverse(s) == [i \in 1..Len(s) |-> s[Len(s) + 1 - i]]

\* dict[k] = v
Put(dict, k, v) == (k :> v) @@ dict

RECURSIVE path_loop(_, _, _)
\* The while loop of reconstruct_path.
path_loop(came_from, current, path) ==
    IF current \in DOMAIN came_from
    THEN path_loop(came_from, came_from[current], Append(path, current))
    ELSE path

reconstruct_path(came_from, e) == Reverse(path_loop(came_from, e, <<>>))

\* cell_neighbors_walkable without the test of the wall flag.
cell_neighbors_any(cell_idx) ==
    LET n(i) == get(CellC(cell_idx) + dirs[i + 1][1], CellR(cell_idx) + dirs[i + 1][2])
        F[i \in 0..4] ==
            IF i = 4 THEN <<>>
            ELSE IF n(i) # None THEN <<n(i)>> \o F[i + 1] ELSE F[i + 1]
    IN  F[0]

\* cell_neighbors_walkable stopping short of the last direction.
cell_neighbors_three(cell_idx) ==
    LET n(i) == get(CellC(cell_idx) + dirs[i + 1][1], CellR(cell_idx) + dirs[i + 1][2])
        F[i \in 0..3] ==
            IF i = 3 THEN <<>>
            ELSE IF ~walls[cell_idx][i + 1] /\ n(i) # None
                 THEN <<n(i)>> \o F[i + 1] ELSE F[i + 1]
    IN  F[0]

\* The cells cell_neighbors_walkable yields, in the order up, right, down, left.
cell_neighbors_walkable(cell_idx) ==
    LET n(i) == get(CellC(cell_idx) + dirs[i + 1][1], CellR(cell_idx) + dirs[i + 1][2])
        F[i \in 0..4] ==
            IF i = 4 THEN <<>>
            ELSE IF ~walls[cell_idx][i + 1] /\ n(i) # None
                 THEN <<n(i)>> \o F[i + 1] ELSE F[i + 1]
    IN  F[0]

\* manhattan weighing every column and row three times: not admissible.
manhattan_tripled(a_idx, b_idx) ==
    3 * (Abs(CellC(a_idx) - CellC(b_idx)) + Abs(CellR(a_idx) - CellR(b_idx)))

manhattan(a_idx, b_idx) ==
    Abs(CellC(a_idx) - CellC(b_idx)) + Abs(CellR(a_idx) - CellR(b_idx))

\* The orders random.shuffle can leave a list of distinct elements in.
Shuffles(s) ==
    {p \in [1..Len(s) -> Range(s)] : \A i, j \in 1..Len(s) : i # j => p[i] # p[j]}

\* Python's order on the tuples of a heap.
TupleLE(x, y) ==
    \/ x[1] < y[1]
    \/ x[1] = y[1] /\ x[2] < y[2]
    \/ x[1] = y[1] /\ x[2] = y[2] /\ x[3] <= y[3]

\* The entry heapq.heappop returns.
HeapMin(heap) == CHOOSE x \in heap : \A y \in heap : TupleLE(x, y)

\* A generator object before its first next(): its locals as the first
\* statements of the function leave them.
NewGenerator(alg, s, e) ==
    [NoGenerator EXCEPT !.alg = alg, !.pc = "start", !.start = s, !.goal = e]

\* ---- DFS_generator
DFS_generator(s, e) ==
    [NewGenerator("DFS", s, e) EXCEPT !.stack = <<<<s, None>>>>]

\* DFS_loop without the test of the popped node against visited.
DFS_loop_no_skip(g) ==
    IF g.stack = <<>> THEN [g EXCEPT !.pc = "notfound"]
    ELSE LET node == Last(g.stack)[1]
             parent == Last(g.stack)[2]
             popped == [g EXCEPT !.stack = Front(g.stack)]
         IN  [popped EXCEPT !.visited = @ \cup {node},
                            !.came_from = IF parent # None THEN Put(@, node, parent) ELSE @,
                            !.node = node,
                            !.pc = "visit"]

RECURSIVE DFS_loop(_)
\* From the loop test to the next yield.
DFS_loop(g) ==
    IF g.stack = <<>> THEN [g EXCEPT !.pc = "notfound"]
    ELSE LET node == Last(g.stack)[1]
             parent == Last(g.stack)[2]
             popped == [g EXCEPT !.stack = Front(g.stack)]
         IN  IF node \in g.visited THEN DFS_loop(popped)
             ELSE [popped EXCEPT !.visited = @ \cup {node},
                                 !.came_from = IF parent # None THEN Put(@, node, parent) ELSE @,
                                 !.node = node,
                                 !.pc = "visit"]

\* The for loop over the shuffled neighbours.
DFS_expand(g, neighbors) ==
    LET F[i \in 1..(Len(neighbors) + 1)] ==
            IF i > Len(neighbors) THEN <<>>
            ELSE IF neighbors[i] \notin g.visited
                 THEN <<<<neighbors[i], g.node>>>> \o F[i + 1] ELSE F[i + 1]
    IN  [g EXCEPT !.stack = @ \o F[1]]

\* ---- BFS_generator
BFS_generator(s, e) ==
    [NewGenerator("BFS", s, e) EXCEPT !.visited = {s}, !.stack = <<<<s, None>>>>]

\* BFS_loop taking the newest entry of the queue (pop for popleft).
BFS_loop_lifo(g) ==
    IF g.stack = <<>> THEN [g EXCEPT !.pc = "notfound"]
    ELSE LET node == Last(g.stack)[1]
             parent == Last(g.stack)[2]
         IN  [g EXCEPT !.stack = Front(@),
                       !.came_from = IF parent # None THEN Put(@, node, parent) ELSE @,
                       !.node = node,
                       !.pc = "visit"]

\* From the loop test to the next yield.
BFS_loop(g) ==
    IF g.stack = <<>> THEN [g EXCEPT !.pc = "notfound"]
    ELSE LET node == Head(g.stack)[1]
             parent == Head(g.stack)[2]
         IN  [g EXCEPT !.stack = Tail(@),
                       !.came_from = IF parent # None THEN Put(@, node, parent) ELSE @,
                       !.node = node,
                       !.pc = "visit"]

RECURSIVE BFS_expand_one(_, _, _)
\* BFS_expand leaving the for loop after the first neighbour it enqueues.
BFS_expand_one(g, neighbors, i) ==
    IF i > Len(neighbors) THEN g
    ELSE LET n == neighbors[i]
         IN  IF n \notin g.visited
             THEN [g EXCEPT !.visited = @ \cup {n},
                            !.stack = Append(@, <<n, g.node>>)]
             ELSE BFS_expand_one(g, neighbors, i + 1)

RECURSIVE BFS_expand(_, _, _)
\* The for loop over the walkable neighbours.
BFS_expand(g, neighbors, i) ==
    IF i > Len(neighbors) THEN g
    ELSE LET n == neighbors[i]
         IN  IF n \notin g.visited
             THEN BFS_expand([g EXCEPT !.visited = @ \cup {n},
                                       !.stack = Append(@, <<n, g.node>>)],
                             neighbors, i + 1)
             ELSE BFS_expand(g, neighbors, i + 1)

\* ---- dijkstra_generator
dijkstra_generator(s, e) ==
    [NewGenerator("Dijkstra", s, e) EXCEPT !.dist = (s :> 0), !.heap = {<<0, s, None>>}]

RECURSIVE dijkstra_loop(_)
\* From the loop test to the next yield.
dijkstra_loop(g) ==
    IF g.heap = {} THEN [g EXCEPT !.pc = "notfound"]
    ELSE LET top == HeapMin(g.heap)
             node == top[2]
             parent == top[3]
             popped == [g EXCEPT !.heap = @ \ {top}, !.d = top[1]]
         IN  IF node \in g.visited THEN dijkstra_loop(popped)
             ELSE [popped EXCEPT !.visited = @ \cup {node},
                                 !.came_from = IF parent # None THEN Put(@, node, parent) ELSE @,
                                 !.node = node,
                                 !.pc = "visit"]

RECURSIVE dijkstra_expand(_, _, _)
dijkstra_expand(g, neighbors, i) ==
    IF i > Len(neighbors) THEN g
    ELSE LET n == neighbors[i]
             nd == g.d + 1
         IN  IF n \notin DOMAIN g.dist \/ nd < g.dist[n]
             THEN dijkstra_expand([g EXCEPT !.dist = Put(@, n, nd),
                                            !.heap = @ \cup {<<nd, n, g.node>>}],
                                  neighbors, i + 1)
             ELSE dijkstra_expand(g, neighbors, i + 1)

\* ---- a_star_generator: dist is gscore, visited is closed_set.  fscore and
\* open_set are written and never read again (but for fscore[start], the
\* first key pushed), so they are not kept.
a_star_generator(s, e) ==
    [NewGenerator("A*", s, e) EXCEPT !.dist = (s :> 0),
                                     !.heap = {<<manhattan(s, e), s, None>>}]

\* a_star_loop settling whatever entry it pops, closed or not.
a_star_loop_no_skip(g) ==
    IF g.heap = {} THEN [g EXCEPT !.pc = "notfound"]
    ELSE LET top == HeapMin(g.heap)
             node == top[2]
             parent == top[3]
             popped == [g EXCEPT !.heap = @ \ {top}, !.d = top[1]]
         IN  [popped EXCEPT !.visited = @ \cup {node},
                            !.came_from = IF parent # None THEN Put(@, node, parent) ELSE @,
                            !.node = node,
                            !.pc = "visit"]

RECURSIVE a_star_loop(_)
\* From the loop test to the next yield.
a_star_loop(g) ==
    IF g.heap = {} THEN [g EXCEPT !.pc = "notfound"]
    ELSE LET top == HeapMin(g.heap)
             node == top[2]
             parent == top[3]
             popped == [g EXCEPT !.heap = @ \ {top}, !.d = top[1]]
         IN  IF node \in g.visited THEN a_star_loop(popped)
             ELSE [popped EXCEPT !.visited = @ \cup {node},
                                 !.came_from = IF parent # None THEN Put(@, node, parent) ELSE @,
                                 !.node = node,
                                 !.pc = "visit"]

\* tentative_g < gscore.get(n, math.inf)
BetterG(g, n, tentative_g) == n \notin DOMAIN g.dist \/ tentative_g < g.dist[n]

RECURSIVE a_star_expand(_, _, _)
a_star_expand(g, neighbors, i) ==
    IF i > Len(neighbors) THEN g
    ELSE LET n == neighbors[i]
             tentative_g == g.dist[g.node] + 1
         IN  IF n \in g.visited /\ ~BetterG(g, n, tentative_g)
             THEN a_star_expand(g, neighbors, i + 1)
             ELSE IF BetterG(g, n, tentative_g)
             THEN a_star_expand(
                      [g EXCEPT !.came_from = Put(@, n, g.node),
                                !.dist = Put(@, n, tentative_g),
                                !.heap = @ \cup {<<tentative_g + manhattan(n, g.goal), n, g.node>>}],
                      neighbors, i + 1)
             ELSE a_star_expand(g, neighbors, i + 1)

ALGORITHM_MAP(name, s, e) ==
    CASE name = "DFS" -> DFS_generator(s, e)
      [] name = "BFS" -> BFS_generator(s, e)
      [] name = "Dijkstra" -> dijkstra_generator(s, e)
      [] name = "A*" -> a_star_generator(s, e)

Algorithms == {"DFS", "BFS", "Dijkstra", "A*"}

\* The first entry into the while loop of a generator.
FirstLoop(g) ==
    CASE g.alg = "DFS" -> DFS_loop(g)
      [] g.alg = "BFS" -> BFS_loop(g)
      [] g.alg = "Dijkstra" -> dijkstra_loop(g)
      [] g.alg = "A*" -> a_star_loop(g)

\* After a "visit" of a node that is not the goal: the expansion of the
\* node, then the loop up to the next yield.
Expansions(g) ==
    LET neighbors == cell_neighbors_walkable(g.node)
    IN  CASE g.alg = "DFS" -> {DFS_loop(DFS_expand(g, p)) : p \in Shuffles(neighbors)}
          [] g.alg = "BFS" -> {BFS_loop(BFS_expand(g, neighbors, 1))}
          [] g.alg = "Dijkstra" -> {dijkstra_loop(dijkstra_expand(g, neighbors, 1))}
          [] g.alg = "A*" -> {a_star_loop(a_star_expand(g, neighbors, 1))}

\* GeneratorNext testing for the goal after the for loop over the neighbours:
\* the goal is expanded before "found" is yielded.
GeneratorNext_expand_goal(g) ==
    LET neighbors == cell_neighbors_walkable(g.node)
        expanded ==
            CASE g.alg = "DFS" -> {DFS_expand(g, p) : p \in Shuffles(neighbors)}
              [] g.alg = "BFS" -> {BFS_expand(g, neighbors, 1)}
              [] g.alg = "Dijkstra" -> {dijkstra_expand(g, neighbors, 1)}
              [] g.alg = "A*" -> {a_star_expand(g, neighbors, 1)}
    IN  CASE g.pc = "start" -> {FirstLoop(g)}
          [] g.pc = "visit" ->
                IF g.node = g.goal THEN {[h EXCEPT !.pc = "found"] : h \in expanded}
                ELSE Expansions(g)
          [] OTHER -> {[g EXCEPT !.pc = "done"]}

\* next(generator): the states the generator can be suspended in after it;
\* pc "done" is the generator having returned (StopIteration).
GeneratorNext(g) ==
    CASE g.pc = "start" -> {FirstLoop(g)}
      [] g.pc = "visit" ->
            IF g.node = g.goal THEN {[g EXCEPT !.pc = "found"]} ELSE Expansions(g)
      [] OTHER -> {[g EXCEPT !.pc = "done"]}

\* ---------------------------------------------------------------- Visualizer
\* run_search.
run_search ==
    IF generating
    THEN UNCHANGED <<searchVars, logVars>>
    ELSE /\ running_search' = TRUE
         /\ search_generator' = ALGORITHM_MAP(algorithm_name, start_idx, end_idx)
         /\ search_visited' = {}
         /\ search_came_from' = <<>>
         /\ search_path' = <<>>
         /\ search_complete' = FALSE
         /\ last_code' = "none"
         /\ visit_log' = <<>>

\* step_search without its first test: the generator is advanced whatever
\* running_search says.
step_search_no_guard ==
    \E g \in GeneratorNext(search_generator) :
        /\ search_generator' = g
        /\ last_code' = IF g.pc = "done" THEN "stop" ELSE g.pc
        /\ running_search' = (g.pc = "visit")
        /\ search_visited' = IF g.pc = "visit" THEN g.visited ELSE search_visited
        /\ search_came_from' = IF g.pc = "visit" THEN g.came_from ELSE search_came_from
        /\ search_path' =
              IF g.pc = "found" THEN reconstruct_path(g.came_from, g.goal)
              ELSE search_path
        /\ search_complete' = IF g.pc = "found" THEN TRUE ELSE search_complete
        /\ visit_log' = IF g.pc = "visit" THEN Append(visit_log, g.node) ELSE visit_log

\* step_search keeping the visited node of a "visit" message in place of
\* the visited set.
step_search_delta ==
    IF ~running_search \/ search_generator = NoGenerator
    THEN /\ last_code' = "return"
         /\ UNCHANGED <<searchVars, visit_log>>
    ELSE \E g \in GeneratorNext(search_generator) :
            /\ search_generator' = g
            /\ last_code' = IF g.pc = "done" THEN "stop" ELSE g.pc
            /\ running_search' = (g.pc = "visit")
            /\ search_visited' = IF g.pc = "visit" THEN {g.node} ELSE search_visited
            /\ search_came_from' = IF g.pc = "visit" THEN g.came_from ELSE search_came_from
            /\ search_path' =
                  IF g.pc = "found" THEN reconstruct_path(g.came_from, g.goal)
                  ELSE search_path
            /\ search_complete' = IF g.pc = "found" THEN TRUE ELSE search_complete
            /\ visit_log' = IF g.pc = "visit" THEN Append(visit_log, g.node) ELSE visit_log

\* step_search: one next() of the generator and the handling of its message.
step_search ==
    IF ~running_search \/ search_generator = NoGenerator
    THEN /\ last_code' = "return"
         /\ UNCHANGED <<searchVars, visit_log>>
    ELSE \E g \in GeneratorNext(search_generator) :
            /\ search_generator' = g
            /\ last_code' = IF g.pc = "done" THEN "stop" ELSE g.pc
            /\ running_search' = (g.pc = "visit")
            /\ search_visited' = IF g.pc = "visit" THEN g.visited ELSE search_visited
            /\ search_came_from' = IF g.pc = "visit" THEN g.came_from ELSE search_came_from
            /\ search_path' =
                  IF g.pc = "found" THEN reconstruct_path(g.came_from, g.goal)
                  ELSE search_path
            /\ search_complete' = IF g.pc = "found" THEN TRUE ELSE search_complete
            /\ visit_log' = IF g.pc = "visit" THEN Append(visit_log, g.node) ELSE visit_log

\* generate_maze up to the carving loop.
generate_maze(animated) ==
    /\ generating' = TRUE
    /\ search_complete' = FALSE
    /\ GenerateBegin(animated)
    /\ UNCHANGED <<running_search, search_generator, search_visited, search_came_from,
                   search_path, logVars>>

\* set_difficulty up to the carving loop of its generate_maze(animated=False):
\* a new Maze of the preset's size.
set_difficulty(name) ==
    /\ diff_name' = name
    /\ cols' = DIFFICULTIES[name][1]
    /\ rows' = DIFFICULTIES[name][2]
    /\ generate_maze(FALSE)
    /\ UNCHANGED <<algorithm_name, start_idx, end_idx>>

\* mainloop: K_SPACE and the Start Search button.
KeySpace ==
    /\ gen_pc = "idle"
    /\ run_search
    /\ UNCHANGED <<mazeVars, diff_name, algorithm_name, generating, start_idx, end_idx>>

\* mainloop: K_g and the New Maze button.
KeyG ==
    /\ gen_pc = "idle"
    /\ UNCHANGED <<cols, rows>>
    /\ generate_maze(TRUE)
    /\ UNCHANGED <<diff_name, algorithm_name, start_idx, end_idx>>

\* mainloop: K_r and the Reset button.
KeyR ==
    /\ gen_pc = "idle"
    /\ reset_search_state
    /\ UNCHANGED <<mazeVars, diff_name, algorithm_name, generating, start_idx, end_idx>>

\* mainloop: K_1 .. K_4 and the algorithm buttons.
select_algorithm(alg) ==
    /\ gen_pc = "idle"
    /\ algorithm_name' = alg
    /\ reset_search_state
    /\ UNCHANGED <<mazeVars, diff_name, generating, start_idx, end_idx>>

\* mainloop: K_e, K_m, K_h, the difficulty buttons and VIDEORESIZE.
KeyDifficulty ==
    /\ gen_pc = "idle"
    /\ \E name \in DOMAIN DIFFICULTIES : set_difficulty(name)

KeyAlgorithm == \E alg \in Algorithms : select_algorithm(alg)

\* A call of step_search, in whatever state the engine is.
StepSearch ==
    /\ gen_pc = "idle"
    /\ step_search
    /\ UNCHANGED <<mazeVars, diff_name, algorithm_name, generating, start_idx, end_idx>>

\* mainloop: the paced step of a running search.
Tick ==
    /\ running_search
    /\ StepSearch

\* Visualizer(DEFAULT_DIFFICULTY), inside the generate_maze(animated=False)
\* of its set_difficulty.
Init ==
    /\ algorithm_name = "A*"
    /\ running_search = FALSE
    /\ search_generator = NoGenerator
    /\ search_visited = {}
    /\ search_came_from = <<>>
    /\ search_path = <<>>
    /\ search_complete = FALSE
    /\ diff_name = DEFAULT_DIFFICULTY
    /\ cols = DIFFICULTIES[DEFAULT_DIFFICULTY][1]
    /\ rows = DIFFICULTIES[DEFAULT_DIFFICULTY][2]
    /\ generating = TRUE
    /\ walls = [i \in 0..(cols * rows - 1) |-> AllWalls]
    /\ cell_visited = {0}
    /\ stack = <<0>>
    /\ gen_pc = "loop"
    /\ callback = FALSE
    /\ cb_calls = 0
    /\ iterations = 0
    /\ draws = <<>>
    /\ start_idx = None
    /\ end_idx = None
    /\ last_code = "none"
    /\ visit_log = <<>>

Next ==
    \/ CarveStep
    \/ GenerateFinish
    \/ KeySpace
    \/ KeyG
    \/ KeyR
    \/ KeyAlgorithm
    \/ KeyDifficulty
    \/ Tick

Spec == Init /\ [][Next]_vars

\* ---------------------------------------------------------------- search on any maze
\* The pairs of grid-adjacent cells.
Passages ==
    {<<a, b>> \in Cells \X Cells :
        \/ b = a + 1 /\ CellR(a) = CellR(b)
        \/ b = a + cols}

RECURSIVE OpenAll(_, _)
\* The walls after remove_walls on every pair of a set of passages.
OpenAll(w, passages) ==
    IF passages = {} THEN w
    ELSE LET p == CHOOSE x \in passages : TRUE
         IN  OpenAll(remove_walls(w, p[1], p[2]), passages \ {p})

\* No generation is running and the search state is as Visualizer.__init__
\* sets it.
InitIdle ==
    /\ cell_visited = {}
    /\ stack = <<>>
    /\ gen_pc = "idle"
    /\ callback = FALSE
    /\ cb_calls = 0
    /\ iterations = 0
    /\ draws = <<>>
    /\ diff_name = DEFAULT_DIFFICULTY
    /\ generating = FALSE
    /\ running_search = FALSE
    /\ search_generator = NoGenerator
    /\ search_visited = {}
    /\ search_came_from = <<>>
    /\ search_path = <<>>
    /\ search_complete = FALSE
    /\ last_code = "none"
    /\ visit_log = <<>>

\* A maze of any size up to MaxCols x MaxRows with any set of passages opened
\* by remove_walls, any start and end cell and any algorithm selected.
InitSearch ==
    /\ cols \in 1..MaxCols
    /\ rows \in 1..MaxRows
    /\ \E open \in SUBSET Passages :
          walls = OpenAll([i \in Cells |-> AllWalls], open)
    /\ InitIdle
    /\ algorithm_name \in Algorithms
    /\ start_idx \in Cells
    /\ end_idx \in Cells

NextSearch ==
    \/ KeySpace
    \/ StepSearch
    \/ KeyR

SpecSearch == InitSearch /\ [][NextSearch]_vars

\* ---------------------------------------------------------------- generation on any grid
\* A call of generate_maze, with or without animation.
Generate ==
    /\ gen_pc = "idle"
    /\ UNCHANGED <<cols, rows>>
    /\ \E animated \in BOOLEAN : generate_maze(animated)
    /\ UNCHANGED <<diff_name, algorithm_name, start_idx, end_idx>>

\* A Maze of any size up to GenMaxCols x GenMaxRows as Maze(cols, rows)
\* builds it, with no generation or search running.
InitGen ==
    /\ cols \in 1..GenMaxCols
    /\ rows \in 1..GenMaxRows
    /\ walls = [i \in Cells |-> AllWalls]
    /\ InitIdle
    /\ algorithm_name = "A*"
    /\ start_idx = index(0, 0)
    /\ end_idx = index(cols - 1, rows - 1)

NextGen ==
    \/ Generate
    \/ CarveStep
    \/ GenerateFinish

SpecGen == InitGen /\ [][NextGen]_vars

\* SpecGen with the loop of generate_recursive_backtracker running on: once
\* called, the function executes its next iteration, and its last lines when
\* the loop test fails; nothing obliges a caller to start a generation.
SpecGenFair == SpecGen /\ WF_vars(CarveStep) /\ WF_vars(GenerateFinish)

\* A Maze of any size up to AnyMaxCols x AnyMaxRows whose cells hold any
\* walls remove_walls can leave and any visited flags, with no generation
\* or search running.
InitGenAny ==
    /\ cols \in 1..AnyMaxCols
    /\ rows \in 1..AnyMaxRows
    /\ \E open \in SUBSET Passages :
          walls = OpenAll([i \in Cells |-> AllWalls], open)
    /\ cell_visited \in SUBSET Cells
    /\ stack = <<>>
    /\ gen_pc = "idle"
    /\ callback = FALSE
    /\ cb_calls = 0
    /\ iterations = 0
    /\ draws = <<>>
    /\ diff_name = DEFAULT_DIFFICULTY
    /\ algorithm_name = "A*"
    /\ generating = FALSE
    /\ running_search = FALSE
    /\ search_generator = NoGenerator
    /\ search_visited = {}
    /\ search_came_from = <<>>
    /\ search_path = <<>>
    /\ search_complete = FALSE
    /\ start_idx = index(0, 0)
    /\ end_idx = index(cols - 1, rows - 1)
    /\ last_code = "none"
    /\ visit_log = <<>>

SpecGenAny == InitGenAny /\ [][NextGen]_vars

\* ---------------------------------------------------------------- the walkable graph
RECURSIVE Closure(_, _)
\* The cells reachable from the cells of a set over walkable neighbours.
Closure(seen, frontier) ==
    IF frontier = {} THEN seen
    ELSE LET more == UNION {Range(cell_neighbors_walkable(x)) : x \in frontier} \ seen
         IN  Closure(seen \cup more, more)

Reach(a) == Closure({a}, {a})

\* The grid-adjacent pairs with no wall between them.
OpenPassages ==
    {p \in Passages : p[2] \in Range(cell_neighbors_walkable(p[1]))
                      \/ p[1] \in Range(cell_neighbors_walkable(p[2]))}

RECURSIVE ClosureWithout(_, _, _)
\* Closure, never walking the passage p.
ClosureWithout(seen, frontier, p) ==
    IF frontier = {} THEN seen
    ELSE LET step(x) == {y \in Range(cell_neighbors_walkable(x)) : {x, y} # {p[1], p[2]}}
             more == UNION {step(x) : x \in frontier} \ seen
         IN  ClosureWithout(seen \cup more, more, p)

Connected == \A a \in Cells : Reach(a) = Cells

\* No cycle: every open passage is the only way between its two cells.
Acyclic == \A p \in OpenPassages : p[2] \notin ClosureWithout({p[1]}, {p[1]}, p)

\* A generation has run to its end.
Generated == gen_pc = "idle" /\ iterations > 0

\* C1: when generate_recursive_backtracker has returned, the walkable graph
\* is a spanning tree: connected over all cols * rows cells, with exactly
\* cols * rows - 1 open passages and no cycle.
C1_SpanningTree ==
    Generated =>
        /\ Connected
        /\ Cardinality(OpenPassages) = cols * rows - 1
        /\ Acyclic

\* A generation has returned on the largest grid.
C1_Witness == Generated /\ cols = GenMaxCols /\ rows = GenMaxRows /\ cols * rows > 1

\* ---------------------------------------------------------------- the search engine
\* The states of the engine, read off the Visualizer's fields.
Idle == search_generator = NoGenerator

Running == search_generator # NoGenerator /\ running_search

Found == search_generator # NoGenerator /\ ~running_search /\ search_complete

Exhausted == search_generator # NoGenerator /\ ~running_search /\ ~search_complete

Terminal == Found \/ Exhausted

\* This step is a call of step_search: it alone leaves an outcome in
\* last_code; a start of a run leaves "none" there and a reset "reset".
StepTaken ==
    /\ last_code' \notin {"none", "reset"}
    /\ UNCHANGED <<walls, start_idx, end_idx, algorithm_name>>

\* The "found" message has just been handled.
FoundEmitted == last_code = "found"

\* The grid neighbour of cell a in direction i, or None.
Toward(a, i) == get(CellC(a) + dirs[i + 1][1], CellR(a) + dirs[i + 1][2])

\* The grid neighbours of a with no wall on either side between them and a.
OpenNeighbours(a) ==
    {Toward(a, i) : i \in {j \in 0..3 : /\ Toward(a, j) # None
                                        /\ ~walls[a][j + 1]
                                        /\ ~walls[Toward(a, j)][((j + 2) % 4) + 1]}}

\* No wall on either side between grid-adjacent cells a and b.
NoWallBetween(a, b) == b \in OpenNeighbours(a)

RECURSIVE PredChain(_, _, _)
\* The cells met following predecessor links from x, x first, for at most
\* fuel links.
PredChain(came_from, x, fuel) ==
    IF x \in DOMAIN came_from /\ fuel > 0
    THEN <<x>> \o PredChain(came_from, came_from[x], fuel - 1)
    ELSE <<x>>

\* The chain from the goal in the predecessor map of the generator.
GoalChain == PredChain(search_generator.came_from, end_idx, cols * rows)

RECURSIVE Layers(_, _, _, _)
\* The number of edges of a shortest walkable route from the cells of
\* frontier (at distance n) to b, or None.
Layers(seen, frontier, b, n) ==
    IF b \in frontier THEN n
    ELSE IF frontier = {} THEN None
    ELSE LET more == UNION {OpenNeighbours(x) : x \in frontier} \ seen
         IN  Layers(seen \cup more, more, b, n + 1)

Distance(a, b) == Layers({a}, {a}, b, 0)

\* C2: whenever "found" is emitted, its path starts at the start cell and
\* ends at the goal cell.
C2_PathFromStartToGoal ==
    FoundEmitted =>
        /\ search_path # <<>>
        /\ Head(search_path) = start_idx
        /\ Last(search_path) = end_idx

\* C3: whenever "found" is emitted, the predecessor links from the goal end
\* at the start, every link joins grid-adjacent cells with no wall between
\* them, and no cell occurs twice on the chain.
C3_ChainValid ==
    FoundEmitted =>
        /\ Last(GoalChain) = start_idx
        /\ start_idx \notin DOMAIN search_generator.came_from
        /\ \A i \in 1..(Len(GoalChain) - 1) : NoWallBetween(GoalChain[i + 1], GoalChain[i])
        /\ \A i, j \in 1..Len(GoalChain) : i # j => GoalChain[i] # GoalChain[j]

\* "found" emitted by each algorithm for a goal three or more links away.
C3_Witness ==
    /\ FoundEmitted
    /\ Len(GoalChain) >= 4
    /\ cols = MaxCols /\ rows = MaxRows
    /\ Cardinality(OpenPassages) >= cols * rows

\* C4: for BFS, Dijkstra and A-star, when "found" is emitted the number of
\* links on the predecessor chain from the goal to the start is the least
\* number of edges between start and goal in the walkable graph.
C4_ShortestChain ==
    (FoundEmitted /\ algorithm_name \in {"BFS", "Dijkstra", "A*"}) =>
        Len(GoalChain) - 1 = Distance(start_idx, end_idx)

\* "found" emitted on a maze with a cycle where the goal has a longer route too.
C4_Witness ==
    /\ FoundEmitted
    /\ algorithm_name = "A*"
    /\ Cardinality(OpenPassages) >= cols * rows
    /\ Len(GoalChain) >= 3
    /\ \E p \in OpenPassages :
          /\ end_idx \in ClosureWithout({start_idx}, {start_idx}, p)
          /\ \E i \in 1..(Len(GoalChain) - 1) : {GoalChain[i], GoalChain[i + 1]} = {p[1], p[2]}

\* The goal can be reached from the start through open passages.
GoalReachable == Distance(start_idx, end_idx) # None

\* C5: a run that is stepped repeatedly reaches a terminal outcome, and the
\* outcome is Found exactly when the goal is reachable from the start in the
\* walkable graph, Exhausted otherwise.  Every step of a running search
\* either ends the run or settles one more cell, and no cell is settled
\* twice, so a run ends within cols * rows + 1 steps.
C5_RunEnds ==
    /\ [](last_code \in {"found", "notfound"} =>
             /\ Terminal
             /\ Found <=> (last_code = "found")
             /\ Found <=> GoalReachable)
    /\ [](/\ Range(visit_log) \subseteq Cells
          /\ \A i, j \in 1..Len(visit_log) : i # j => visit_log[i] # visit_log[j])
    /\ [][(Running /\ StepTaken) =>
             \/ Terminal'
             \/ Running' /\ Len(visit_log') = Len(visit_log) + 1]_vars

\* A run has ended Exhausted after settling several cells.
C5_Witness == Exhausted /\ Len(visit_log) >= 3 /\ last_code = "notfound"

\* C6: once a run has reached Found or Exhausted, a further step_search call
\* changes nothing of the search state, and the outcome stays the same.
C6_TerminalIdempotent ==
    [][(Terminal /\ StepTaken) =>
          /\ UNCHANGED <<searchVars, visit_log>>
          /\ (Found' <=> Found)
          /\ (Exhausted' <=> Exhausted)]_vars

\* step_search was called on a terminal engine.
C6_Witness == Terminal /\ last_code = "return"

\* The predecessor map of the run's generator keeps the value of node k in
\* this step.
KeepsPredecessor(k) ==
    /\ k \in DOMAIN search_generator'.came_from
    /\ search_generator'.came_from[k] = search_generator.came_from[k]

\* C7: for BFS, Dijkstra and A-star, the value stored for a node in the
\* predecessor map never changes during a run.
C7_PredecessorOnce ==
    [][(Running /\ StepTaken /\ algorithm_name \in {"BFS", "Dijkstra", "A*"}) =>
          \A k \in DOMAIN search_generator.came_from : KeepsPredecessor(k)]_vars

\* C7 as amended: for BFS and Dijkstra the value stored for a node never
\* changes during a run; for A-star it never changes once the node is
\* settled, and before that it changes only together with a strictly
\* smaller gscore of the node.
C7_PredecessorOnceSettled ==
    [][(Running /\ StepTaken) =>
          /\ algorithm_name \in {"BFS", "Dijkstra"} =>
                \A k \in DOMAIN search_generator.came_from : KeepsPredecessor(k)
          /\ algorithm_name = "A*" =>
                \A k \in DOMAIN search_generator.came_from :
                    \/ KeepsPredecessor(k)
                    \/ /\ k \notin search_generator.visited
                       /\ search_generator'.dist[k] < search_generator.dist[k]]_vars

\* A-star has replaced the predecessor of a node: the heap still holds the
\* entry pushed with the earlier predecessor.
C7_Witness ==
    /\ Running
    /\ algorithm_name = "A*"
    /\ \E e \in search_generator.heap :
          /\ e[2] \in DOMAIN search_generator.came_from
          /\ e[3] # search_generator.came_from[e[2]]

\* C8: within a run, every cell of the visited set after a step is still in
\* it after the next step.
C8_VisitedGrows ==
    [][(search_generator # NoGenerator /\ StepTaken) =>
          /\ search_visited \subseteq search_visited'
          /\ Cardinality(search_visited') >= Cardinality(search_visited)]_vars

\* Several steps of one run have been taken.
C8_Witness == Len(visit_log) >= 3 /\ Cardinality(search_visited) >= 3

\* C9: when the start cell is the goal cell, the first step of the run
\* yields Found with the path [start].
C9_StartIsGoal ==
    (start_idx = end_idx /\ search_generator # NoGenerator /\ last_code # "none") =>
        /\ Found
        /\ search_path = <<start_idx>>

\* C10: on the 2x2 grid whose only passages are (0,0)-(1,0) and (1,0)-(1,1),
\* BFS from (0,0) to (1,1) finds the path [(0,0),(1,0),(1,1)], with three
\* cells visited, after exactly three visit steps.
C10_Scenario ==
    (/\ cols = 2 /\ rows = 2
     /\ OpenPassages = {<<0, 1>>, <<1, 3>>}
     /\ algorithm_name = "BFS"
     /\ start_idx = 0 /\ end_idx = 3
     /\ FoundEmitted) =>
        /\ search_path = <<0, 1, 3>>
        /\ Cardinality(search_visited) = 3
        /\ Len(visit_log) = 3

RECURSIVE Spread(_, _)
\* The cells joined to the cells of a set by open passages.
Spread(seen, frontier) ==
    IF frontier = {} THEN seen
    ELSE LET more == UNION {OpenNeighbours(x) : x \in frontier} \ seen
         IN  Spread(seen \cup more, more)

\* The connected component of cell a in the walkable graph.
Component(a) == Spread({a}, {a})

\* Every wall of the grid is present.
NeverGenerated == \A a \in Cells : walls[a] = AllWalls

C12_IdleWhileCarving ==
    generating =>
        /\ ~running_search
        /\ Idle
        /\ search_visited = {}
        /\ search_came_from = <<>>
        /\ search_path = <<>>

\* C13: reset_search_state, called in any engine state, leaves the engine
\* Idle with the visited set, predecessor map and path empty, not running
\* and not complete, and leaves the walls as they were; a step_search call
\* on the Idle engine changes nothing.
C13_ResetToIdle ==
    /\ [](last_code = "reset" =>
             /\ Idle
             /\ ~running_search
             /\ ~search_complete
             /\ search_visited = {}
             /\ search_came_from = <<>>
             /\ search_path = <<>>)
    /\ [][last_code' = "reset" => UNCHANGED <<walls, cols, rows>>]_vars
    /\ [][(Idle /\ StepTaken) =>
             /\ last_code' = "return"
             /\ UNCHANGED <<searchVars, visit_log, walls>>]_vars

\* reset_search_state has just been called on the largest grid.
C13_Witness == last_code = "reset" /\ cols = MaxCols /\ rows = MaxRows

\* C14: when generate_recursive_backtracker has returned, no cell's visited
\* flag is set and the generation stack is empty, whatever the size of the
\* grid, the random choices, and the flags and walls before the call.
C14_NoTransientLeft ==
    Generated =>
        /\ cell_visited = {}
        /\ stack = <<>>

\* A generation has returned on the largest grid after advancing to every cell.
C14_Witness ==
    /\ Generated
    /\ cols = AnyMaxCols /\ rows = AnyMaxRows
    /\ Cardinality({i \in 1..Len(draws) : draws[i] > 0}) = cols * rows - 1

\* The (neighbour, direction) pairs neighbors_with_walls returns when the
\* cells of visited are those with the flag set.
UnvisitedNeighbours(cell, visited) ==
    LET toward == [i \in 1..4 |-> <<Toward(cell, i - 1), i - 1>>]
        unvisited(pair) == pair[1] # None /\ pair[1] \notin visited
    IN  SelectSeq(toward, unvisited)

RECURSIVE Carved(_)
\* The walls, flags and stack that the loop iterations drawing d leave on a
\* grid of this size whose cells were all reset: a function of cols, rows
\* and the draws alone.
Carved(d) ==
    IF d = <<>>
    THEN [walls |-> [i \in Cells |-> AllWalls], visited |-> {0}, stack |-> <<0>>]
    ELSE LET s == Carved(Front(d))
             current == Last(s.stack)
             neighbors == UnvisitedNeighbours(current, s.visited)
         IN  IF neighbors # <<>>
             THEN LET nxt == neighbors[Last(d)][1]
                  IN  [walls |-> remove_walls(s.walls, current, nxt),
                       visited |-> s.visited \cup {nxt},
                       stack |-> Append(s.stack, nxt)]
             ELSE [s EXCEPT !.stack = Front(@)]

\* C15: the walls a generation leaves are determined by the size of the grid
\* and the sequence of random draws: any two runs on grids of the same size
\* fed the same draws end (and pass through) the same walls, whatever walls
\* and flags each grid started with and whether or not a callback is supplied.
C15_WallsFromDraws ==
    /\ gen_pc = "loop" =>
          /\ walls = Carved(draws).walls
          /\ cell_visited = Carved(draws).visited
          /\ stack = Carved(draws).stack
    /\ Generated => walls = Carved(draws).walls

\* A generation with a callback has returned on the largest grid, on a run
\* that had more than one cell to choose from at some draw.
C15_Witness ==
    /\ Generated
    /\ callback
    /\ cols = AnyMaxCols /\ rows = AnyMaxRows
    /\ \E i \in 1..Len(draws) : draws[i] > 1

\* This step is a step_search call that handled a "visit" message.
VisitTaken == StepTaken /\ last_code' = "visit"

\* C16: every visit step settles exactly one node, and that node was not
\* settled before in this run: it is not the node of an earlier visit
\* message, and for DFS, Dijkstra and A-star (whose visited set is the
\* settled set) it is the one cell the step adds to the generator's set.
C16_SettlesOneNewNode ==
    [][VisitTaken =>
          LET node == search_generator'.node
          IN  /\ visit_log' = Append(visit_log, node)
              /\ node \in Cells
              /\ node \notin Range(visit_log)
              /\ algorithm_name # "BFS" =>
                    /\ node \notin search_generator.visited
                    /\ search_generator'.visited = search_generator.visited \cup {node}]_vars

\* DFS has just settled a node while its stack holds a stale entry for a
\* node settled earlier.
C16_Witness ==
    /\ last_code = "visit"
    /\ algorithm_name = "DFS"
    /\ Len(visit_log) >= 3
    /\ \E i \in 1..Len(search_generator.stack) :
          search_generator.stack[i][1] \in search_generator.visited \ {search_generator.node}

\* C17: the visited set carried by every visit message is exactly the set
\* of nodes settled so far in the run, those of this and the earlier visit
\* messages.
C17_VisitedIsSettled ==
    last_code = "visit" => search_visited = Range(visit_log)

\* The goal's visit message is the latest message handled.
GoalSettled ==
    /\ Running
    /\ last_code = "visit"
    /\ search_generator.node = end_idx

\* C18: the message that follows the visit message of the goal is "found",
\* and the generator does nothing else in between: its frontier, visited set,
\* predecessor map and costs are as the goal's visit left them; "found" never
\* comes but straight after the goal's visit.
C18_FoundRightAfterGoal ==
    /\ [][(GoalSettled /\ StepTaken) =>
             /\ last_code' = "found"
             /\ search_generator' = [search_generator EXCEPT !.pc = "found"]
             /\ UNCHANGED <<search_visited, search_came_from, visit_log>>]_vars
    /\ [](FoundEmitted =>
             /\ visit_log # <<>>
             /\ Last(visit_log) = end_idx
             /\ search_generator.node = end_idx)

\* "found" was yielded for a goal that has a walkable neighbour not yet
\* visited: expanding the goal would have grown the frontier.
C18_Witness ==
    /\ FoundEmitted
    /\ \E n \in OpenNeighbours(end_idx) : n \notin search_generator.visited

\* A-star has just settled a node (its visit message is the latest handled).
AStarSettled == algorithm_name = "A*" /\ last_code = "visit"

\* C19: in A-star, the gscore of a node when it is settled is its true
\* shortest-path distance from the start; the gscore of a settled node never
\* changes afterwards, and the expansion of a settled node offers no settled
\* neighbour a strictly smaller cost (the reopening branch is not taken).
C19_AStarSettlesOptimal ==
    /\ [](AStarSettled =>
             LET g == search_generator
             IN  /\ g.node \in DOMAIN g.dist
                 /\ g.dist[g.node] = Distance(start_idx, g.node)
                 /\ \A n \in Range(cell_neighbors_walkable(g.node)) \cap g.visited :
                       g.dist[g.node] + 1 >= g.dist[n])
    /\ [][(algorithm_name = "A*" /\ Running /\ StepTaken) =>
             \A k \in search_generator.visited :
                 search_generator'.dist[k] = search_generator.dist[k]]_vars

\* A-star has settled a node reached by a detour, next to two nodes settled
\* before it.
C19_Witness ==
    /\ AStarSettled
    /\ search_generator.dist[search_generator.node]
           > manhattan(start_idx, search_generator.node)
    /\ Cardinality(Range(cell_neighbors_walkable(search_generator.node))
                       \cap search_generator.visited) >= 2

\* C20: in every state during and after a generation the walls are
\* symmetric and the outer boundary is intact: a cell's wall flag toward a
\* grid neighbour equals the neighbour's flag toward it, and a flag that
\* faces outside the grid is set; so every cell cell_neighbors_walkable
\* yields is a cell of the grid.
C20_SymmetricWalls ==
    /\ DOMAIN walls = Cells
    /\ \A a \in Cells :
          /\ \A i \in 0..3 :
                IF Toward(a, i) = None
                THEN walls[a][i + 1]
                ELSE walls[a][i + 1] = walls[Toward(a, i)][((i + 2) % 4) + 1]
          /\ Range(cell_neighbors_walkable(a)) \subseteq Cells \ {a}

\* A generation on the largest grid is under way and has advanced in each
\* of the four directions along its stack.
C20_Witness ==
    /\ gen_pc = "loop"
    /\ cols = GenMaxCols /\ rows = GenMaxRows
    /\ \A step \in {1, -1, cols, -cols} :
          \E i \in 1..(Len(stack) - 1) : stack[i + 1] = stack[i] + step

\* The carving loop is at its test with cells left on the stack.
Carving == gen_pc = "loop" /\ stack # <<>>

\* C21: at every iteration of the carving loop the stack is a sequence of
\* distinct visited cells that starts at (0,0), each cell grid-adjacent to
\* the one below it and joined to it by an open passage; the open passages
\* join exactly the visited cells into a tree, with one passage fewer than
\* visited cells; and every cell not yet visited has its four walls.
C21_CarvingInvariant ==
    gen_pc = "loop" =>
        /\ stack # <<>> => Head(stack) = index(0, 0)
        /\ Range(stack) \subseteq cell_visited
        /\ \A i, j \in 1..Len(stack) : i # j => stack[i] # stack[j]
        /\ \A i \in 1..(Len(stack) - 1) :
              /\ manhattan(stack[i], stack[i + 1]) = 1
              /\ NoWallBetween(stack[i], stack[i + 1])
        /\ cell_visited \subseteq Cells
        /\ Component(index(0, 0)) = cell_visited
        /\ Cardinality(OpenPassages) = Cardinality(cell_visited) - 1
        /\ \A p \in OpenPassages : {p[1], p[2]} \subseteq cell_visited
        /\ \A a \in Cells \ cell_visited : walls[a] = AllWalls

\* The loop on the largest grid has backtracked and advanced again: the
\* stack is shorter than the visited set, and cells are still unvisited.
C21_Witness ==
    /\ Carving
    /\ cols = GenMaxCols /\ rows = GenMaxRows
    /\ Len(stack) >= 3
    /\ Cardinality(cell_visited) >= Len(stack) + 2
    /\ Cardinality(cell_visited) < cols * rows
    /\ draws # <<>> /\ Last(draws) > 0

\* The iterations of the running generation that advanced, and those that
\* backtracked.
Advances == Cardinality({i \in 1..Len(draws) : draws[i] > 0})

Backtracks == Cardinality({i \in 1..Len(draws) : draws[i] = 0})

\* The callback was invoked once in each iteration so far, if one was supplied.
CallbackPerIteration == cb_calls = (IF callback THEN iterations ELSE 0)

\* C22: generate_recursive_backtracker terminates, after exactly
\* 2 * cols * rows - 1 iterations of its loop, cols * rows - 1 of them
\* advances and cols * rows backtracks, and a supplied callback is invoked
\* exactly once in every iteration.
C22_IterationCount ==
    /\ [](gen_pc = "loop" =>
             /\ iterations = Len(draws)
             /\ iterations = 2 * Cardinality(cell_visited) - 1 - Len(stack)
             /\ Advances = Cardinality(cell_visited) - 1
             /\ iterations <= 2 * cols * rows - 1
             /\ CallbackPerIteration)
    /\ [](Generated =>
             /\ iterations = 2 * cols * rows - 1
             /\ Advances = cols * rows - 1
             /\ Backtracks = cols * rows
             /\ CallbackPerIteration)
    /\ [][(gen_pc = "loop" /\ gen_pc' = "loop" /\ draws' # draws) =>
             /\ iterations' = iterations + 1
             /\ cb_calls' = cb_calls + (IF callback THEN 1 ELSE 0)]_vars
    /\ (gen_pc = "loop") ~> Generated

\* A generation with a callback has returned on the largest grid.
C22_Witness ==
    /\ Generated
    /\ callback
    /\ cb_calls > 0
    /\ cols = GenMaxCols /\ rows = GenMaxRows

====
